---------------------------- MODULE Spec2Model ----------------------------
(***************************************************************************)
(* A model of zflate (src/main.rs): a command line stream transcoder that  *)
(* compresses or decompresses zlib, raw deflate or gzip streams.           *)
(*                                                                         *)
(* The state is the state of one process invocation (its argument vector,  *)
(* the parsed Args, the position of run() and main()) together with the    *)
(* environment the process acts on: the file system, the implicit input    *)
(* and output streams and the diagnostic stream.  A second invocation may  *)
(* follow a successful compress run and decompress the file it wrote.      *)
(*                                                                         *)
(* The codec (flate2) is an external library.  It is modelled by a small   *)
(* run-length codec with the same framing structure: an optional header,   *)
(* a body closed by an end-of-block symbol, an optional checksum trailer.  *)
(* One symbol of a stream stands for one chunk of the real byte stream.    *)
(***************************************************************************)
EXTENDS Integers, Sequences, FiniteSets, TLC

VARIABLES
    argv,        \* the argument vector of the invocation, by option
    args,        \* Args as parsed by Args::parse()
    pc,          \* position of the process in run() / main()
    comp_level,  \* run(): let comp_level
    idx,         \* run(): position of `for path in files`
    fs,          \* the file system: path -> [exists, data]
    stdin,       \* the bytes of the implicit input stream
    devOk,       \* does the device behind the output accept writes
    sink,        \* run(): let mut output: "unopened", "file", "stdout", "closed"
    buf,         \* bytes buffered in the output writer, not yet on the device
    stdoutDev,   \* the bytes that reached the implicit output stream
    stderr,      \* the messages written to the diagnostic stream
    srcOpen,     \* the named sources currently open, by position in the list
    result,      \* what run() returned: "none", "Ok", "ErrSinkOpen", ...
    exitCode,    \* the exit status of the process, -1 while it runs
    opened,      \* history: the paths File::open was called on, in order
    transcoded,  \* history: the sources transcode was called on, in order
    produced,    \* history: the bytes transcode handed to the output
    sinkOpens,   \* history: number of times the output was opened
    sinkCloses,  \* history: number of times the output was closed
    runNo,       \* the number of this invocation
    orig         \* the input of the previous compress run and its mode

vars == <<argv, args, pc, comp_level, idx, fs, stdin, devOk, sink, buf,
          stdoutDev, stderr, srcOpen, result, exitCode, opened, transcoded,
          produced, sinkOpens, sinkCloses, runNo, orig>>

-----------------------------------------------------------------------------
(* Bounds of the model *)

MaxFiles == 2

MaxLen == 2

BufCap == 4

MaxRuns == 2

-----------------------------------------------------------------------------
(* Sequences *)

IsPrefix(s, t) == Len(s) <= Len(t) /\ SubSeq(t, 1, Len(s)) = s

SeqsUpTo(S, n) == UNION {[1..k -> S] : k \in 0..n}

RECURSIVE Sum(_)
Sum(s) == IF s = <<>> THEN 0 ELSE Head(s) + Sum(Tail(s))

RECURSIVE WSum(_)
WSum(s) == IF s = <<>> THEN 0 ELSE Len(s) * (Head(s) + 1) + WSum(Tail(s))

Repeat(b, n) == [i \in 1..n |-> b]

-----------------------------------------------------------------------------
(* The codec: the encoders and decoders of flate2, per container format *)

Modes == {"Zlib", "Deflate", "Gzip"}

Levels == 1..9

\* Length of the run of s[1] at the head of s, at most cap.
RECURSIVE RunLen(_, _)
RunLen(s, cap) ==
    IF Len(s) >= 2 /\ s[2] = s[1] /\ cap > 1
    THEN 1 + RunLen(Tail(s), cap - 1)
    ELSE 1

\* The payload: runs of at most `level` equal bytes, each as <<10 + n, byte>>.
RECURSIVE DeflateBody(_, _)
DeflateBody(level, data) ==
    IF data = <<>> THEN <<>>
    ELSE LET n == RunLen(data, level)
         IN  <<10 + n, data[1]>> \o DeflateBody(level, SubSeq(data, n + 1, Len(data)))

\* A raw deflate stream: the payload and the end-of-block symbol 10.
DeflateStream(level, data) == DeflateBody(level, data) \o <<10>>

Adler(data) == 50 + ((Sum(data) + Len(data)) % 10)

Crc(data) == 60 + (WSum(data) % 10)

XFL(level) == IF level = 9 THEN 2 ELSE IF level = 1 THEN 4 ELSE 0

ZlibEncoder(level, data) ==
    <<100 + level>> \o DeflateStream(level, data) \o <<Adler(data)>>

DeflateEncoder(level, data) == DeflateStream(level, data)

GzEncoder(level, data) ==
    <<200, XFL(level)>> \o DeflateStream(level, data) \o <<Crc(data), 70 + (Len(data) % 10)>>

\* Decoding of a raw deflate stream: the bytes decoded, how decoding ended
\* ("end": end of block met, "eof": input exhausted first, "corrupt") and
\* the input left after the end of block.
RECURSIVE Inflate(_)
Inflate(s) ==
    IF s = <<>> THEN [st |-> "eof", out |-> <<>>, rest |-> <<>>]
    ELSE IF s[1] = 10 THEN [st |-> "end", out |-> <<>>, rest |-> Tail(s)]
    ELSE IF s[1] \in 11..19
         THEN IF Len(s) < 2 THEN [st |-> "eof", out |-> <<>>, rest |-> <<>>]
              ELSE LET r == Inflate(SubSeq(s, 3, Len(s)))
                   IN  [r EXCEPT !.out = Repeat(s[2], s[1] - 10) \o r.out]
         ELSE [st |-> "corrupt", out |-> <<>>, rest |-> <<>>]

\* A decoder yields the bytes it decoded before it stopped and whether it
\* stopped with an error.  The deflate and zlib decoders end quietly when the
\* input ends early; the gzip decoder reports an unexpected end of input.
\* Input after the first member is not read.
DeflateDecoder(s) ==
    LET r == Inflate(s)
    IN  [ok |-> r.st # "corrupt", out |-> r.out]

ZlibDecoder(s) ==
    IF s = <<>> THEN [ok |-> TRUE, out |-> <<>>]
    ELSE IF s[1] \notin 100..109 THEN [ok |-> FALSE, out |-> <<>>]
    ELSE LET r == Inflate(Tail(s))
         IN  IF r.st = "corrupt" THEN [ok |-> FALSE, out |-> r.out]
             ELSE IF r.st = "eof" \/ r.rest = <<>> THEN [ok |-> TRUE, out |-> r.out]
             ELSE [ok |-> r.rest[1] = Adler(r.out), out |-> r.out]

GzDecoder(s) ==
    IF Len(s) < 2 \/ s[1] # 200 THEN [ok |-> FALSE, out |-> <<>>]
    ELSE LET r == Inflate(SubSeq(s, 3, Len(s)))
         IN  IF r.st # "end" \/ Len(r.rest) < 2 THEN [ok |-> FALSE, out |-> r.out]
             ELSE [ok |-> r.rest[1] = Crc(r.out) /\ r.rest[2] = 70 + (Len(r.out) % 10),
                   out |-> r.out]

-----------------------------------------------------------------------------
(* Argument parsing: struct Args and the CompressionLevelArgs group *)

None == [some |-> FALSE, val |-> <<>>]

Some(v) == [some |-> TRUE, val |-> v]

\* The level flags that appear together in the conflicting argument vectors.
ConflictLevels == {1, 9}

LevelArgvs ==
    {<<>>} \cup {<<k>> : k \in Levels} \cup {<<j, k>> : j, k \in ConflictLevels}

InPaths == {"a", "b", "m"}

OutPaths == {"out", "ro"}

Paths == InPaths \cup OutPaths

FileLists == {<<>>} \cup {l \in SeqsUpTo(InPaths, MaxFiles) : l # <<>>}

\* Faulty variant of ParseOk: the group allows several flags (multiple = true).
ParseOkMultiple(av) == TRUE

\* Faulty variant of ParseOk: --decompress conflicts with the level flags.
ParseOkExclusive(av) == Len(av.levels) <= 1 /\ ~(av.decompress /\ av.levels # <<>>)

\* #[group(required = false, multiple = false)]: the parser accepts at most
\* one flag of the group; --decompress is not part of any group.
ParseOk(av) == Len(av.levels) <= 1

\* The parsed struct: one bool per level flag, Option for output and files
\* (no positional argument at all gives files = None).
ParseArgs(av) ==
    [decompress      |-> av.decompress,
     mode            |-> av.mode,
     output          |-> IF av.output = "" THEN None ELSE Some(<<av.output>>),
     comp_level_args |-> [k \in Levels |-> \E i \in 1..Len(av.levels) : av.levels[i] = k],
     files           |-> IF av.files = <<>> THEN None ELSE Some(av.files)]

NoArgs == ParseArgs([decompress |-> FALSE, mode |-> "Zlib", output |-> "",
                     levels |-> <<>>, files |-> <<>>])

\* Compression::default().level()
DefaultLevel == 6

\* Faulty variant of level: without a flag the best level is used.
levelBestDefault(self) ==
    IF \E k \in Levels : self[k] THEN CHOOSE k \in Levels : self[k] /\ \A j \in 1..(k - 1) : ~self[j]
    ELSE 9

\* CompressionLevelArgs::level
level(self) ==
    IF self[1] THEN 1
    ELSE IF self[2] THEN 2
    ELSE IF self[3] THEN 3
    ELSE IF self[4] THEN 4
    ELSE IF self[5] THEN 5
    ELSE IF self[6] THEN 6
    ELSE IF self[7] THEN 7
    ELSE IF self[8] THEN 8
    ELSE IF self[9] THEN 9
    ELSE DefaultLevel

\* CompressionLevelArgs::compression
compression(self) == level(self)

-----------------------------------------------------------------------------
(* Mode::compress, Mode::decompress and the transcode closure *)

\* Mode::compress: the encoder of the mode, copied to the output.
compress(mode, lvl, input) ==
    [ok  |-> TRUE,
     out |-> CASE mode = "Zlib"    -> ZlibEncoder(lvl, input)
               [] mode = "Deflate" -> DeflateEncoder(lvl, input)
               [] mode = "Gzip"    -> GzEncoder(lvl, input)]

\* Faulty variant of decompress: every mode decodes with the zlib decoder.
decompressZlibOnly(mode, input) == ZlibDecoder(input)

\* Mode::decompress: the decoder of the mode, copied to the output.
decompress(mode, input) ==
    CASE mode = "Zlib"    -> ZlibDecoder(input)
      [] mode = "Deflate" -> DeflateDecoder(input)
      [] mode = "Gzip"    -> GzDecoder(input)

\* run(): the closure transcode, as the bytes it hands to the output and
\* whether the codec reported an error.
transcode(a, lvl, input) ==
    IF a.decompress THEN decompress(a.mode, input)
    ELSE compress(a.mode, lvl, input)

-----------------------------------------------------------------------------
(* The output writer *)

\* A write of the device behind the output: it fails on a faulty device.
DevWriteOk(ok, d) == ok \/ d = <<>>

\* Write::write_all on the buffered output: bytes are kept in the buffer
\* while they fit; a write that does not fit flushes the buffer first, and a
\* write as large as the buffer goes to the device directly.
\* b: the buffer, dev: the bytes on the device, d: the bytes written.
BufWrite(ok, b, dev, d) ==
    IF Len(b) + Len(d) > BufCap
    THEN IF ~DevWriteOk(ok, b) THEN [ok |-> FALSE, buf |-> b, dev |-> dev]
         ELSE IF Len(d) >= BufCap
              THEN IF ~DevWriteOk(ok, d)
                   THEN [ok |-> FALSE, buf |-> <<>>, dev |-> dev \o b]
                   ELSE [ok |-> TRUE, buf |-> <<>>, dev |-> dev \o b \o d]
              ELSE [ok |-> TRUE, buf |-> d, dev |-> dev \o b]
    ELSE [ok |-> TRUE, buf |-> b \o d, dev |-> dev]

\* The flush of the buffer when the writer is dropped: errors are ignored,
\* the bytes of a failed flush are lost.
DropFlush(ok, b, dev) == IF DevWriteOk(ok, b) THEN dev \o b ELSE dev

\* The bytes on the device behind the output.
SinkDev == IF args.output.some THEN fs[args.output.val[1]].data ELSE stdoutDev

\* Faulty variant of SinkWrite: the output is created anew for every input.
SinkWriteFresh(d) == BufWrite(devOk, <<>>, <<>>, d)

\* The write of d by the transcode closure into the output of run().
SinkWrite(d) == BufWrite(devOk, buf, SinkDev, d)

\* The device behind the output now holds dev.
SetSinkDev(dev) ==
    IF args.output.some
    THEN /\ fs' = [fs EXCEPT ![args.output.val[1]].data = dev]
         /\ UNCHANGED stdoutDev
    ELSE /\ stdoutDev' = dev
         /\ UNCHANGED fs

-----------------------------------------------------------------------------
(* The environment *)

\* "a" holds a zlib stream, "b" a zlib stream whose trailer is damaged, "m"
\* does not exist; "out" exists with stale content, "ro" cannot be created.
InitFS ==
    [p \in Paths |->
        CASE p = "a"   -> [exists |-> TRUE,  data |-> <<106, 12, 0, 10, 52>>]
          [] p = "b"   -> [exists |-> TRUE,  data |-> <<106, 11, 1, 10, 50>>]
          [] p = "out" -> [exists |-> TRUE,  data |-> <<7, 7>>]
          [] OTHER     -> [exists |-> FALSE, data |-> <<>>]]

\* File::create succeeds on every path but "ro".
Creatable(p) == p # "ro"

Argvs ==
    [decompress : BOOLEAN, mode : Modes, output : {""} \cup OutPaths,
     levels : LevelArgvs, files : FileLists]

NoOrig == [mode |-> "Zlib", level |-> 0, data |-> <<>>]

Init ==
    /\ argv \in Argvs
    /\ args = NoArgs
    /\ pc = "start"
    /\ comp_level = 0
    /\ idx = 1
    /\ fs = InitFS
    /\ stdin \in (IF argv.files = <<>> THEN SeqsUpTo(0..1, MaxLen) ELSE {<<>>})
    /\ devOk \in BOOLEAN
    /\ sink = "unopened"
    /\ buf = <<>>
    /\ stdoutDev = <<>>
    /\ stderr = <<>>
    /\ srcOpen = {}
    /\ result = "none"
    /\ exitCode = -1
    /\ opened = <<>>
    /\ transcoded = <<>>
    /\ produced = <<>>
    /\ sinkOpens = 0
    /\ sinkCloses = 0
    /\ runNo = 1
    /\ orig = NoOrig

-----------------------------------------------------------------------------
(* run() and main(), step by step *)

\* run(): Args::parse() accepts the argument vector.
Parse ==
    /\ pc = "start"
    /\ ParseOk(argv)
    /\ args' = ParseArgs(argv)
    /\ pc' = "parsed"
    /\ UNCHANGED <<argv, comp_level, idx, fs, stdin, devOk, sink, buf, stdoutDev,
                   stderr, srcOpen, result, exitCode, opened, transcoded, produced,
                   sinkOpens, sinkCloses, runNo, orig>>

\* run(): Args::parse() rejects the argument vector: the parser writes its
\* usage error to the diagnostic stream and exits the process with status 2.
ParseError ==
    /\ pc = "start"
    /\ ~ParseOk(argv)
    /\ stderr' = Append(stderr, "usage")
    /\ exitCode' = 2
    /\ pc' = "exited"
    /\ UNCHANGED <<argv, args, comp_level, idx, fs, stdin, devOk, sink, buf,
                   stdoutDev, srcOpen, result, opened, transcoded, produced,
                   sinkOpens, sinkCloses, runNo, orig>>

\* run(): output = Box::new(io::stdout())
OpenStdout ==
    /\ pc = "parsed"
    /\ ~args.output.some
    /\ sink' = "stdout"
    /\ sinkOpens' = sinkOpens + 1
    /\ pc' = "level"
    /\ UNCHANGED <<argv, args, comp_level, idx, fs, stdin, devOk, buf, stdoutDev,
                   stderr, srcOpen, result, exitCode, opened, transcoded, produced,
                   sinkCloses, runNo, orig>>

\* run(): output = Box::new(BufWriter::new(File::create(path)?)): the file is
\* created or truncated.
CreateOutput ==
    /\ pc = "parsed"
    /\ args.output.some
    /\ Creatable(args.output.val[1])
    /\ fs' = [fs EXCEPT ![args.output.val[1]] = [exists |-> TRUE, data |-> <<>>]]
    /\ sink' = "file"
    /\ sinkOpens' = sinkOpens + 1
    /\ pc' = "level"
    /\ UNCHANGED <<argv, args, comp_level, idx, stdin, devOk, buf, stdoutDev,
                   stderr, srcOpen, result, exitCode, opened, transcoded, produced,
                   sinkCloses, runNo, orig>>

\* run(): File::create(path).context("failed to open output file")? returns.
CreateOutputFail ==
    /\ pc = "parsed"
    /\ args.output.some
    /\ ~Creatable(args.output.val[1])
    /\ result' = "ErrSinkOpen"
    /\ pc' = "ret"
    /\ UNCHANGED <<argv, args, comp_level, idx, fs, stdin, devOk, sink, buf,
                   stdoutDev, stderr, srcOpen, exitCode, opened, transcoded,
                   produced, sinkOpens, sinkCloses, runNo, orig>>

\* run(): let comp_level = args.comp_level_args.compression()
ResolveLevel ==
    /\ pc = "level"
    /\ comp_level' = compression(args.comp_level_args)
    /\ pc' = "loop"
    /\ UNCHANGED <<argv, args, idx, fs, stdin, devOk, sink, buf, stdoutDev, stderr,
                   srcOpen, result, exitCode, opened, transcoded, produced,
                   sinkOpens, sinkCloses, runNo, orig>>

\* Faulty variant of ReadsStdin: a missing list is taken as an empty list.
ReadsStdinNever(a) == FALSE

\* run(): `if let Some(files) = args.files` takes the else branch.
ReadsStdin(a) == ~a.files.some

\* run(): transcode(&mut io::stdin().lock())?; Ok(())
TranscodeStdin ==
    /\ pc = "loop"
    /\ ReadsStdin(args)
    /\ LET t == transcode(args, comp_level, stdin)
           w == SinkWrite(t.out)
       IN  /\ buf' = w.buf
           /\ SetSinkDev(w.dev)
           /\ produced' = IF w.ok THEN produced \o t.out ELSE produced
           /\ result' = IF t.ok /\ w.ok THEN "Ok" ELSE "ErrTranscode"
    /\ transcoded' = Append(transcoded, "-")
    /\ pc' = "ret"
    /\ UNCHANGED <<argv, args, comp_level, idx, stdin, devOk, sink, stderr, srcOpen,
                   exitCode, opened, sinkOpens, sinkCloses, runNo, orig>>

\* run(): File::open(&path) succeeds for the next path of the list.
OpenSource ==
    /\ pc = "loop"
    /\ ~ReadsStdin(args)
    /\ idx <= Len(args.files.val)
    /\ fs[args.files.val[idx]].exists
    /\ opened' = Append(opened, args.files.val[idx])
    /\ srcOpen' = srcOpen \cup {idx}
    /\ pc' = "src"
    /\ UNCHANGED <<argv, args, comp_level, idx, fs, stdin, devOk, sink, buf,
                   stdoutDev, stderr, result, exitCode, transcoded, produced,
                   sinkOpens, sinkCloses, runNo, orig>>

\* Faulty variant of OpenSourceFail: the input is skipped and the loop goes on.
OpenSourceSkip ==
    /\ pc = "loop"
    /\ args.files.some
    /\ idx <= Len(args.files.val)
    /\ ~fs[args.files.val[idx]].exists
    /\ opened' = Append(opened, args.files.val[idx])
    /\ idx' = idx + 1
    /\ UNCHANGED <<argv, args, pc, comp_level, fs, stdin, devOk, sink, buf,
                   stdoutDev, stderr, srcOpen, result, exitCode, transcoded,
                   produced, sinkOpens, sinkCloses, runNo, orig>>

\* run(): File::open(&path).with_context(..)? returns the error.
OpenSourceFail ==
    /\ pc = "loop"
    /\ ~ReadsStdin(args)
    /\ idx <= Len(args.files.val)
    /\ ~fs[args.files.val[idx]].exists
    /\ opened' = Append(opened, args.files.val[idx])
    /\ result' = "ErrSrcOpen"
    /\ pc' = "ret"
    /\ UNCHANGED <<argv, args, comp_level, idx, fs, stdin, devOk, sink, buf,
                   stdoutDev, stderr, srcOpen, exitCode, transcoded, produced,
                   sinkOpens, sinkCloses, runNo, orig>>

\* run(): transcode(&mut file)?
TranscodeFile ==
    /\ pc = "src"
    /\ LET t == transcode(args, comp_level, fs[args.files.val[idx]].data)
           w == SinkWrite(t.out)
       IN  /\ buf' = w.buf
           /\ SetSinkDev(w.dev)
           /\ produced' = IF w.ok THEN produced \o t.out ELSE produced
           /\ result' = IF t.ok /\ w.ok THEN result ELSE "ErrTranscode"
           /\ pc' = IF t.ok /\ w.ok THEN "srcdone" ELSE "unwind"
    /\ transcoded' = Append(transcoded, args.files.val[idx])
    /\ UNCHANGED <<argv, args, comp_level, idx, stdin, devOk, sink, stderr, srcOpen,
                   exitCode, opened, sinkOpens, sinkCloses, runNo, orig>>

\* Faulty variant of CloseSource: the source is kept open.
CloseSourceLeak ==
    /\ pc \in {"srcdone", "unwind"}
    /\ idx' = IF pc = "srcdone" THEN idx + 1 ELSE idx
    /\ pc' = IF pc = "srcdone" THEN "loop" ELSE "ret"
    /\ UNCHANGED <<argv, args, comp_level, fs, stdin, devOk, sink, buf, stdoutDev,
                   stderr, srcOpen, result, exitCode, opened, transcoded, produced,
                   sinkOpens, sinkCloses, runNo, orig>>

\* run(): `file` goes out of scope, at the end of the loop body or when `?`
\* returns from it: the source is closed.
CloseSource ==
    /\ pc \in {"srcdone", "unwind"}
    /\ srcOpen' = srcOpen \ {idx}
    /\ idx' = IF pc = "srcdone" THEN idx + 1 ELSE idx
    /\ pc' = IF pc = "srcdone" THEN "loop" ELSE "ret"
    /\ UNCHANGED <<argv, args, comp_level, fs, stdin, devOk, sink, buf, stdoutDev,
                   stderr, result, exitCode, opened, transcoded, produced,
                   sinkOpens, sinkCloses, runNo, orig>>

\* run(): the list is exhausted: Ok(())
LoopEnd ==
    /\ pc = "loop"
    /\ ~ReadsStdin(args)
    /\ idx > Len(args.files.val)
    /\ result' = "Ok"
    /\ pc' = "ret"
    /\ UNCHANGED <<argv, args, comp_level, idx, fs, stdin, devOk, sink, buf,
                   stdoutDev, stderr, srcOpen, exitCode, opened, transcoded,
                   produced, sinkOpens, sinkCloses, runNo, orig>>

\* run() returns and `output` is dropped.  A BufWriter flushes its buffer and
\* ignores the error of the flush, then the file is closed; the handle of the
\* implicit output stream is released, its buffer is flushed at exit.
DropOutput ==
    /\ pc = "ret"
    /\ IF sink = "file"
       THEN /\ fs' = [fs EXCEPT ![args.output.val[1]].data =
                                    DropFlush(devOk, buf, fs[args.output.val[1]].data)]
            /\ buf' = <<>>
       ELSE UNCHANGED <<fs, buf>>
    /\ sink' = IF sink = "unopened" THEN sink ELSE "closed"
    /\ sinkCloses' = IF sink = "unopened" THEN sinkCloses ELSE sinkCloses + 1
    /\ pc' = "main"
    /\ UNCHANGED <<argv, args, comp_level, idx, stdin, devOk, stdoutDev, stderr,
                   srcOpen, result, exitCode, opened, transcoded, produced,
                   sinkOpens, runNo, orig>>

\* The exit of the process flushes the buffer of the implicit output stream,
\* ignoring the error of the flush.
ExitFlush ==
    /\ stdoutDev' = IF args.output.some THEN stdoutDev
                    ELSE DropFlush(devOk, buf, stdoutDev)
    /\ buf' = <<>>

\* main(): run() returned Ok, main returns.
MainReturn ==
    /\ pc = "main"
    /\ result = "Ok"
    /\ exitCode' = 0
    /\ ExitFlush
    /\ pc' = "exited"
    /\ UNCHANGED <<argv, args, comp_level, idx, fs, stdin, devOk, sink, stderr,
                   srcOpen, result, opened, transcoded, produced, sinkOpens,
                   sinkCloses, runNo, orig>>

\* Faulty variant of MainError: the error is printed and main returns.
MainErrorNoExit ==
    /\ pc = "main"
    /\ result # "Ok"
    /\ stderr' = Append(stderr, "Error")
    /\ exitCode' = 0
    /\ ExitFlush
    /\ pc' = "exited"
    /\ UNCHANGED <<argv, args, comp_level, idx, fs, stdin, devOk, sink, srcOpen,
                   result, opened, transcoded, produced, sinkOpens, sinkCloses,
                   runNo, orig>>

\* main(): eprintln!("Error: {err:#}"); std::process::exit(1)
MainError ==
    /\ pc = "main"
    /\ result # "Ok"
    /\ stderr' = Append(stderr, "Error")
    /\ exitCode' = 1
    /\ ExitFlush
    /\ pc' = "exited"
    /\ UNCHANGED <<argv, args, comp_level, idx, fs, stdin, devOk, sink, srcOpen,
                   result, opened, transcoded, produced, sinkOpens, sinkCloses,
                   runNo, orig>>

\* The argument vectors of a run that decompresses the file "out".
DecompressArgvs ==
    [decompress : {TRUE}, mode : Modes, output : {""},
     levels : {l \in LevelArgvs : Len(l) <= 1}, files : {<<"out">>}]

\* A compress run of a single input into "out" has exited with status 0: the
\* program is invoked again, on the same file system, to decompress "out"
\* to the implicit output stream.
Reinvoke ==
    /\ pc = "exited"
    /\ runNo < MaxRuns
    /\ exitCode = 0
    /\ ~argv.decompress
    /\ argv.output = "out"
    /\ Len(argv.files) <= 1
    /\ argv' \in DecompressArgvs
    /\ orig' = [mode  |-> argv.mode,
                level |-> comp_level,
                data  |-> IF argv.files = <<>> THEN stdin ELSE InitFS[argv.files[1]].data]
    /\ args' = NoArgs
    /\ pc' = "start"
    /\ comp_level' = 0
    /\ idx' = 1
    /\ stdin' = <<>>
    /\ sink' = "unopened"
    /\ buf' = <<>>
    /\ stdoutDev' = <<>>
    /\ stderr' = <<>>
    /\ srcOpen' = {}
    /\ result' = "none"
    /\ exitCode' = -1
    /\ opened' = <<>>
    /\ transcoded' = <<>>
    /\ produced' = <<>>
    /\ sinkOpens' = 0
    /\ sinkCloses' = 0
    /\ runNo' = runNo + 1
    /\ UNCHANGED <<fs, devOk>>

Next ==
    \/ Parse
    \/ ParseError
    \/ OpenStdout
    \/ CreateOutput
    \/ CreateOutputFail
    \/ ResolveLevel
    \/ TranscodeStdin
    \/ OpenSource
    \/ OpenSourceFail
    \/ TranscodeFile
    \/ CloseSource
    \/ LoopEnd
    \/ DropOutput
    \/ MainReturn
    \/ MainError
    \/ Reinvoke

Spec == Init /\ [][Next]_vars

-----------------------------------------------------------------------------
(* Vocabulary of the properties *)

Done == pc = "exited"

SinkIsOpen == sink \in {"file", "stdout"}

\* The level an argument vector selects: its flag, or 6 without one.
EffLevel(av) == IF av.levels = <<>> THEN 6 ELSE av.levels[1]

\* The transform applied to each file of a list on its own, back to back.
RECURSIVE ConcatT(_, _, _)
ConcatT(a, lvl, files) ==
    IF files = <<>> THEN <<>>
    ELSE transcode(a, lvl, fs[Head(files)].data).out \o ConcatT(a, lvl, Tail(files))

\* The contents of the files of a list, joined.
RECURSIVE ConcatData(_)
ConcatData(files) ==
    IF files = <<>> THEN <<>> ELSE fs[Head(files)].data \o ConcatData(Tail(files))

\* The encoding of the empty payload, per format.
MinimalEmpty(mode, lvl) ==
    CASE mode = "Zlib"    -> <<100 + lvl, 10, 50>>
      [] mode = "Deflate" -> <<10>>
      [] mode = "Gzip"    -> <<200, XFL(lvl), 10, 60, 70>>

-----------------------------------------------------------------------------
(* C1 *)

\* C1: when every open and every transcode of a non-empty input list
\* succeeded and the output device took the bytes, the output holds exactly
\* T(p1) \o ... \o T(pN) in list order; when compressing two or more inputs
\* this is not the single member T(p1 \o ... \o pN).
C1_Concatenation ==
    (Done /\ args.files.some /\ result = "Ok" /\ devOk) =>
        /\ SinkDev = ConcatT(args, comp_level, args.files.val)
        /\ (~args.decompress /\ Len(args.files.val) >= 2) =>
               SinkDev # transcode(args, comp_level, ConcatData(args.files.val)).out

C1_Witness ==
    /\ Done /\ result = "Ok" /\ devOk
    /\ args.files.some /\ args.files.val = <<"a", "b">>
    /\ ~args.decompress /\ args.output.some

-----------------------------------------------------------------------------
(* C2 *)

\* C2 as stated: a failure to open or to transcode input i ends the run in
\* failure, no later input is opened or transcoded, the output keeps the
\* bytes of the inputs before i, and when i is the first input a named output
\* file exists and is empty.
C2_Original ==
    (Done /\ devOk /\ args.files.some /\ result \in {"ErrSrcOpen", "ErrTranscode"}) =>
        LET i == Len(opened)
        IN  /\ exitCode # 0
            /\ opened = SubSeq(args.files.val, 1, i)
            /\ IsPrefix(ConcatT(args, comp_level, SubSeq(args.files.val, 1, i - 1)), SinkDev)
            /\ (i = 1 /\ args.output.some) =>
                   /\ fs[args.output.val[1]].exists
                   /\ fs[args.output.val[1]].data = <<>>

\* C2, amended: a failure to open or to transcode input i ends the run with
\* status 1; the inputs opened are exactly inputs 1..i, each but the last
\* successfully, and the inputs transcoded are 1..i-1 (open failure) or 1..i
\* (transcode failure).  On a device that takes the bytes the output holds
\* the bytes of inputs 1..i-1 in order, followed, after a transcode failure,
\* by what the transform produced from input i before it failed.  When
\* opening the first input fails, a named output file exists and is empty.
C2_FailFast ==
    /\ \A k \in 1..(Len(opened) - 1) : fs[opened[k]].exists
    /\ args.files.some =>
           /\ IsPrefix(opened, args.files.val)
           /\ IsPrefix(transcoded, opened)
           /\ Len(transcoded) >= Len(opened) - 1
    /\ (Done /\ args.files.some /\ result = "ErrSrcOpen") =>
           LET i == Len(opened)
           IN  /\ exitCode = 1
               /\ i >= 1 /\ ~fs[opened[i]].exists
               /\ transcoded = SubSeq(args.files.val, 1, i - 1)
               /\ devOk => SinkDev = ConcatT(args, comp_level, transcoded)
               /\ (i = 1 /\ args.output.some) =>
                      /\ fs[args.output.val[1]].exists
                      /\ fs[args.output.val[1]].data = <<>>
    /\ (Done /\ args.files.some /\ result = "ErrTranscode") =>
           LET i == Len(opened)
           IN  /\ exitCode = 1
               /\ i >= 1
               /\ transcoded = opened
               /\ devOk => SinkDev = ConcatT(args, comp_level, transcoded)

C2_Witness ==
    /\ Done /\ devOk /\ args.files.some
    /\ result = "ErrSrcOpen" /\ Len(opened) = 2 /\ Len(args.files.val) >= 2
    /\ SinkDev # <<>>

-----------------------------------------------------------------------------
(* C3 *)

\* A transform of the run reported an error of the codec.
CodecFailed ==
    \E k \in 1..Len(transcoded) :
        ~transcode(args, comp_level,
                   IF transcoded[k] = "-" THEN stdin ELSE fs[transcoded[k]].data).ok

\* C3 as stated: the exit status is 0 exactly when the run succeeded and 1 on
\* every failure, configuration errors included, after a message on the
\* diagnostic stream.
C3_Original ==
    Done =>
        /\ exitCode = 0 <=> (ParseOk(argv) /\ result = "Ok")
        /\ exitCode # 0 => (exitCode = 1 /\ stderr # <<>>)

\* C3, amended: the exit status is 0 exactly when the arguments were accepted
\* and run() returned Ok; it is 2 exactly on a configuration error, reported
\* by the argument parser; it is 1 exactly when run() returned a sink-open,
\* source-open or transcoding error.  Every non-zero exit follows a message
\* on the diagnostic stream.
C3_ExitStatus ==
    Done =>
        /\ exitCode \in {0, 1, 2}
        /\ exitCode = 2 <=> ~ParseOk(argv)
        /\ exitCode = 1 <=> result \in {"ErrSinkOpen", "ErrSrcOpen", "ErrTranscode"}
        /\ exitCode = 0 <=> (ParseOk(argv) /\ result = "Ok")
        /\ (ParseOk(argv) /\ argv.output = "ro") => exitCode = 1
        /\ (\E k \in 1..Len(opened) : ~fs[opened[k]].exists) => exitCode = 1
        /\ CodecFailed => exitCode = 1
        /\ exitCode # 0 <=> stderr # <<>>

C3_Witness ==
    \/ Done /\ exitCode = 2
    \/ Done /\ exitCode = 1 /\ result = "ErrTranscode"

-----------------------------------------------------------------------------
(* C4 *)

\* C4: with two or more level flags the invocation is rejected by the
\* argument parser: the output is never opened, no file is created, truncated
\* or opened, no transform runs, and the process exits with a non-zero status
\* after a message on the diagnostic stream.
C4_LevelFlagsExclusive ==
    Len(argv.levels) >= 2 =>
        /\ sinkOpens = 0 /\ sink = "unopened"
        /\ fs = InitFS /\ stdoutDev = <<>>
        /\ opened = <<>> /\ transcoded = <<>>
        /\ pc \in {"start", "exited"}
        /\ Done => (exitCode # 0 /\ stderr # <<>>)

C4_Witness == Done /\ Len(argv.levels) >= 2 /\ argv.output = "out"

-----------------------------------------------------------------------------
(* C5 *)

\* The outcome of a decompress run over a list of files, whatever the level:
\* the bytes decoded up to the first failure and whether all succeeded.
RECURSIVE DecodeAll(_, _)
DecodeAll(mode, files) ==
    IF files = <<>> THEN [ok |-> TRUE, out |-> <<>>]
    ELSE LET d == decompress(mode, fs[Head(files)].data)
             r == DecodeAll(mode, Tail(files))
         IN  IF ~fs[Head(files)].exists THEN [ok |-> FALSE, out |-> <<>>]
             ELSE IF ~d.ok THEN d
             ELSE [ok |-> r.ok, out |-> d.out \o r.out]

-----------------------------------------------------------------------------
(* C6 *)

\* The level has been resolved: run() is past `let comp_level`.
LevelResolved ==
    \/ pc \in {"loop", "src", "srcdone", "unwind"}
    \/ pc \in {"ret", "main", "exited"} /\ sinkOpens = 1

\* C6: once resolved, the level is k when exactly one flag -k was given and 6
\* when none was; every member a compress run writes is encoded at that
\* level, so the output of a run without a level flag is the output of the
\* same run with -6.
C6_LevelResolution ==
    /\ LevelResolved =>
           /\ argv.levels = <<>> => comp_level = 6
           /\ \A k \in Levels : argv.levels = <<k>> => comp_level = k
    /\ (Done /\ result = "Ok" /\ devOk /\ ~argv.decompress) =>
           SinkDev = (IF argv.files = <<>>
                      THEN compress(argv.mode, EffLevel(argv), stdin).out
                      ELSE ConcatT([decompress |-> FALSE, mode |-> argv.mode],
                                   EffLevel(argv), argv.files))

C6_Witness ==
    /\ Done /\ result = "Ok" /\ devOk /\ ~argv.decompress
    /\ argv.levels = <<>> /\ argv.mode = "Zlib"
    /\ SinkDev # <<>> /\ SinkDev[1] = 106

-----------------------------------------------------------------------------
(* C7 *)

-----------------------------------------------------------------------------
(* C8 *)

\* C8: after a compress run of a single input in some mode at some level, a
\* decompress run in the same mode on its output succeeds and writes the
\* original bytes, whatever the level of the compress run and whatever level
\* flag the decompress run is given (both runs on a device that takes the
\* bytes).
C8_RoundTrip ==
    (runNo = 2 /\ Done /\ devOk /\ argv.mode = orig.mode) =>
        /\ exitCode = 0
        /\ stdoutDev = orig.data

C8_Witness ==
    /\ runNo = 2 /\ Done /\ devOk /\ argv.mode = orig.mode
    /\ orig.data = <<0, 0>> /\ orig.level = 9
    /\ argv.levels = <<1>> /\ argv.mode = "Gzip"

-----------------------------------------------------------------------------
(* C9 *)

\* C9: past argument parsing the output is opened at most once and before any
\* source is opened or read; it stays open while sources are processed; at
\* most one source is open at a time; the output is closed exactly once,
\* after the last source was closed, on every path on which it was opened;
\* a run whose output could not be opened opens and reads no input.
C9_OpenCloseDiscipline ==
    /\ sinkOpens <= 1 /\ sinkCloses <= sinkOpens
    /\ (opened # <<>> \/ transcoded # <<>>) => sinkOpens = 1
    /\ Cardinality(srcOpen) <= 1
    /\ (srcOpen # {} \/ pc \in {"loop", "src", "srcdone", "unwind"}) => SinkIsOpen
    /\ SinkIsOpen <=> (sinkOpens = 1 /\ sinkCloses = 0)
    /\ sinkCloses = 1 => (srcOpen = {} /\ sink = "closed" /\ pc \in {"main", "exited"})
    /\ (Done /\ ParseOk(argv)) =>
           /\ srcOpen = {}
           /\ sinkCloses = sinkOpens
           /\ sinkOpens = 1 \/ (result = "ErrSinkOpen" /\ opened = <<>> /\ transcoded = <<>>)

C9_Witness ==
    /\ Done /\ sinkOpens = 1 /\ sinkCloses = 1
    /\ Len(opened) = 2 /\ result = "ErrTranscode"

-----------------------------------------------------------------------------
(* C10 *)

\* C10: whenever the process exits with status 0, every byte the transforms
\* handed to the output has reached the device behind the output, the bytes
\* still buffered when the output is closed included.
C10_NoSilentLoss ==
    (Done /\ exitCode = 0) => SinkDev = produced

====
